---- MODULE Spec2Model ----
(***************************************************************************)
(* A model of app.py: the /chat handler with its server-side session (a    *)
(* filesystem session store read when a request opens and written when it  *)
(* closes), the /tts handler, and the utilities detect_language and        *)
(* build_ssml.  Text is a sequence of Unicode code points.                 *)
(***************************************************************************)
EXTENDS Integers, Sequences, FiniteSets, TLC

VARIABLES
    store,          \* the session as the session store holds it (a dict: key -> value)
    req,            \* per worker thread: the /chat request it is handling
    resp,           \* the last /chat response sent, with the request it answers
    turns,          \* history variable: <<user_message, reply>> of every successful turn
    prompt_builds,  \* history variable: how often system_instruction was computed
    any_failed,     \* history variable: some model call has failed
    arg,            \* the input drawn for the single-call specifications
    lang_out,       \* result of a direct detect_language call
    ssml_out,       \* result of a direct build_ssml call
    tts_env,        \* what the last /tts request met: the credentials set, the synthesis result
    tts_out         \* the last /tts exchange

vars ==
    <<store, req, resp, turns, prompt_builds, any_failed, arg, lang_out, ssml_out,
      tts_env, tts_out>>

chatVars == <<store, req, resp, turns, prompt_builds, any_failed>>
callVars == <<lang_out, ssml_out, tts_env, tts_out>>

(***************************************************************************)
(* Bounds of the model.                                                    *)
(***************************************************************************)
\* successful turns a session is followed for
MaxTurns == 4
\* length of the texts drawn as inputs of detect_language
MaxLen == 3
\* length of the texts drawn as inputs of build_ssml and /tts
MaxSsmlLen == 2

\* worker threads of the development server that serve one session
Reqs == {1, 2}

(***************************************************************************)
(* Program constants.                                                      *)
(***************************************************************************)
\* r"[ঀ-৿]"
BanglaFirst == 2432
BanglaLast == 2559
\* "।", "!" and "?" of r'(?<=[।!?])'
Danda == 2404
Bang == 33
Quest == 63
\* [-6:]
HistoryWindow == 6

\* "Please ask a question."
PleaseAsk ==
    <<80, 108, 101, 97, 115, 101, 32, 97, 115, 107, 32, 97, 32, 113, 117, 101,
      115, 116, 105, 111, 110, 46>>
\* "এই মুহূর্তে উত্তর দিতে সমস্যা হচ্ছে।"
ApologyBn ==
    <<2447, 2439, 32, 2478, 2497, 2489, 2498, 2480, 2509, 2468, 2503, 32, 2441,
      2468, 2509, 2468, 2480, 32, 2470, 2495, 2468, 2503, 32, 2488, 2478, 2488,
      2509, 2479, 2494, 32, 2489, 2458, 2509, 2459, 2503, 2404>>
\* "I'm having trouble answering right now."
ApologyEn ==
    <<73, 39, 109, 32, 104, 97, 118, 105, 110, 103, 32, 116, 114, 111, 117, 98,
      108, 101, 32, 97, 110, 115, 119, 101, 114, 105, 110, 103, 32, 114, 105,
      103, 104, 116, 32, 110, 111, 119, 46>>

(***************************************************************************)
(* Text utilities.                                                         *)
(***************************************************************************)
\* the code points str.strip() removes (str.isspace)
WhiteSpace ==
    {9, 10, 11, 12, 13, 28, 29, 30, 31, 32, 133, 160, 5760, 8232, 8233, 8239,
     8287, 12288} \cup (8192..8202)

RECURSIVE LStrip(_)
LStrip(s) ==
    IF s = <<>> THEN <<>>
    ELSE IF Head(s) \in WhiteSpace THEN LStrip(Tail(s)) ELSE s

RECURSIVE RStrip(_)
RStrip(s) ==
    IF s = <<>> THEN <<>>
    ELSE IF s[Len(s)] \in WhiteSpace THEN RStrip(SubSeq(s, 1, Len(s) - 1)) ELSE s

Strip_Nothing(s) == s

\* str.strip()
Strip(s) == RStrip(LStrip(s))

\* "bn" and "en"
LangBn == <<98, 110>>
LangEn == <<101, 110>>

detect_language_AtStart(text) ==
    IF text # <<>> /\ Head(text) >= BanglaFirst /\ Head(text) <= BanglaLast
    THEN LangBn ELSE LangEn

\* re.search scans the text left to right for the first code point of the class
RECURSIVE detect_language(_)
detect_language(text) ==
    IF text = <<>> THEN LangEn
    ELSE IF Head(text) >= BanglaFirst /\ Head(text) <= BanglaLast THEN LangBn
    ELSE detect_language(Tail(text))

(***************************************************************************)
(* JSON request values: a key of the body is absent, holds a string, holds *)
(* null, or holds some other value that is not a string (a number, a list). *)
(***************************************************************************)
Absent == [kind |-> "absent", s |-> <<>>]
Null == [kind |-> "null", s |-> <<>>]
NotStr == [kind |-> "other", s |-> <<>>]
Str(s) == [kind |-> "str", s |-> s]

\* data.get(key, "")
GetOrEmpty(v) == IF v.kind = "absent" THEN Str(<<>>) ELSE v

(***************************************************************************)
(* The session: a dict.  The store keeps one dict per session id; a        *)
(* request works on the copy loaded when it opened.                        *)
(***************************************************************************)
EmptySession == <<>>
HasKey(sess, k) == k \in DOMAIN sess
SetItem(sess, k, v) == [x \in (DOMAIN sess) \cup {k} |-> IF x = k THEN v ELSE sess[x]]

\* the chat history a session dict holds (no records when the key is not set)
History(sess) == IF HasKey(sess, "chat_history") THEN sess["chat_history"] ELSE <<>>

\* the f-string over ARTICLE_TEXT and PRODUCT_DATA, both fixed after start-up
SystemInstruction == "You are a professional customer service officer ... {ARTICLE_TEXT} ... {products}"

\* the second system message
SystemRules(lang) ==
    IF lang = LangBn THEN "Reply in polite, natural Bangla. Rules: ..."
    ELSE "Reply in polite, natural English. Rules: ..."

Message(role, content) == [role |-> role, content |-> content]

BuildMessages_HistoryLast(sess, lang, user_message) ==
    <<Message("system", sess["system_instruction"]), Message("system", SystemRules(lang)),
      Message("user", user_message)>> \o sess["chat_history"]

\* messages = [system, system, *session["chat_history"], user]
BuildMessages(sess, lang, user_message) ==
    <<Message("system", sess["system_instruction"]), Message("system", SystemRules(lang))>>
    \o sess["chat_history"]
    \o <<Message("user", user_message)>>

KeepLast_Seven(h) ==
    IF Len(h) > HistoryWindow + 1 THEN SubSeq(h, Len(h) - HistoryWindow, Len(h)) ELSE h

KeepLast_First(h) ==
    IF Len(h) > HistoryWindow THEN SubSeq(h, 1, HistoryWindow) ELSE h

\* (...)[-6:]
KeepLast(h) ==
    IF Len(h) > HistoryWindow THEN SubSeq(h, Len(h) - HistoryWindow + 1, Len(h)) ELSE h

\* session["chat_history"] + [user, assistant], cut to the window
AppendTurn(h, user_message, reply) ==
    KeepLast(h \o <<Message("user", user_message), Message("assistant", reply)>>)

\* the canned reply of the except branch
Apology(lang) == IF lang = LangBn THEN ApologyBn ELSE ApologyEn

\* save_session: the whole dict is written, and only when the request modified it
SaveSession(st, sess, modified) == IF modified THEN sess ELSE st

(***************************************************************************)
(* The /chat handler.                                                      *)
(***************************************************************************)
IdleReq ==
    [pc |-> "idle", raw |-> Absent, user_message |-> <<>>, lang |-> <<>>,
     session |-> EmptySession, modified |-> FALSE, messages |-> <<>>,
     called |-> FALSE, outcome |-> "none", reply |-> <<>>]

\* a response: status, reply and lang go to the client; raw, outcome and
\* called record the request it answers
Response(status, reply, lang, raw, outcome, called) ==
    [status |-> status, reply |-> reply, lang |-> lang, raw |-> raw,
     outcome |-> outcome, called |-> called]

NoResp == Response(0, <<>>, <<>>, Absent, "none", FALSE)

InFlight == {r \in Reqs : req[r].pc # "idle"}

\* the model follows a session for MaxTurns successful turns
WithinBudget == Len(turns) + Cardinality(InFlight) < MaxTurns

\* data.get("message", "").strip() raises on a value that is not a string:
\* the framework answers 500 and the session is never opened for writing
ChatBadType(r, m) ==
    /\ req[r].pc = "idle"
    /\ GetOrEmpty(m).kind # "str"
    /\ req' = [req EXCEPT ![r] = IdleReq]
    /\ resp' = Response(500, <<>>, <<>>, m, "error", FALSE)
    /\ store' = SaveSession(store, store, FALSE)
    /\ UNCHANGED <<turns, prompt_builds, any_failed>>

\* lines 192-196: the message strips to nothing
ChatEmpty(r, m) ==
    /\ req[r].pc = "idle"
    /\ GetOrEmpty(m).kind = "str"
    /\ Strip(GetOrEmpty(m).s) = <<>>
    /\ req' = [req EXCEPT ![r] = IdleReq]
    /\ resp' = Response(200, PleaseAsk, LangEn, m, "empty", FALSE)
    /\ store' = SaveSession(store, store, FALSE)
    /\ UNCHANGED <<turns, prompt_builds, any_failed>>

\* lines 192-235: the session is loaded, the two keys are set when missing and
\* the message list is built; the request then waits for the model
ChatBegin(r, m) ==
    /\ req[r].pc = "idle"
    /\ GetOrEmpty(m).kind = "str"
    /\ Strip(GetOrEmpty(m).s) # <<>>
    /\ LET user_message == Strip(GetOrEmpty(m).s)
           lang == detect_language(user_message)
           s0 == store
           s1 == IF HasKey(s0, "chat_history") THEN s0 ELSE SetItem(s0, "chat_history", <<>>)
           s2 == IF HasKey(s1, "system_instruction") THEN s1
                 ELSE SetItem(s1, "system_instruction", SystemInstruction)
       IN /\ req' = [req EXCEPT ![r] =
                        [pc |-> "calling", raw |-> m, user_message |-> user_message,
                         lang |-> lang, session |-> s2, modified |-> (s2 # s0),
                         messages |-> BuildMessages(s2, lang, user_message),
                         called |-> FALSE, outcome |-> "none", reply |-> <<>>]]
          /\ prompt_builds' = IF HasKey(s1, "system_instruction") THEN prompt_builds
                              ELSE prompt_builds + 1
    /\ UNCHANGED <<store, resp, turns, any_failed>>

\* lines 237-259: the model answers with content o.s, or the call or the
\* extraction of the reply raises
ModelCall(r, o) ==
    /\ req[r].pc = "calling"
    /\ \/ /\ o.kind = "str"
          /\ LET reply == Strip(o.s)
                 h == AppendTurn(req[r].session["chat_history"], req[r].user_message, reply)
             IN /\ req' = [req EXCEPT ![r].pc = "responding", ![r].called = TRUE,
                                      ![r].outcome = "ok", ![r].reply = reply,
                                      ![r].session = SetItem(@, "chat_history", h),
                                      ![r].modified = TRUE]
                /\ turns' = Append(turns, <<req[r].user_message, reply>>)
          /\ UNCHANGED any_failed
       \/ /\ o.kind # "str"
          /\ req' = [req EXCEPT ![r].pc = "responding", ![r].called = TRUE,
                                ![r].outcome = "failed",
                                ![r].reply = Apology(req[r].lang)]
          /\ any_failed' = TRUE
          /\ UNCHANGED turns
    /\ UNCHANGED <<store, resp, prompt_builds>>

\* line 261 and the close of the request: the response goes out and the
\* session is saved
ChatEnd(r) ==
    /\ req[r].pc = "responding"
    /\ resp' = Response(200, req[r].reply, req[r].lang, req[r].raw, req[r].outcome,
                         req[r].called)
    /\ store' = SaveSession(store, req[r].session, req[r].modified)
    /\ req' = [req EXCEPT ![r] = IdleReq]
    /\ UNCHANGED <<turns, prompt_builds, any_failed>>

(***************************************************************************)
(* build_ssml.  The markup is kept as its parts: the language and voice of *)
(* the document, the style, and the prosody elements of the body, each     *)
(* with the pause that follows it (0: none).                               *)
(***************************************************************************)
SentenceEnders == {Danda, Bang, Quest}

SentenceEnders_NoBang == {Danda, Quest}

\* re.split(r'(?<=[।!?])', text): a cut after every sentence ender; what is
\* left after the last cut, empty or not, is the last piece
RECURSIVE SplitAfter(_, _, _)
SplitAfter(text, cur, enders) ==
    IF text = <<>> THEN <<cur>>
    ELSE IF Head(text) \in enders
         THEN <<Append(cur, Head(text))>> \o SplitAfter(Tail(text), <<>>, enders)
         ELSE SplitAfter(Tail(text), Append(cur, Head(text)), enders)

Sentences_NoBang(text) == SplitAfter(text, <<>>, SentenceEnders_NoBang)

Sentences(text) == SplitAfter(text, <<>>, SentenceEnders)

\* s.strip().endswith(("!", "?"))
EndsStrong(s) == s # <<>> /\ s[Len(s)] \in {Bang, Quest}

\* the lists random.choice draws from, after "!" or "?" and otherwise
StrongPitch == <<"+2%", "+3%", "+4%">>
StrongRate == <<"1.03", "1.05", "1.07">>
CalmPitch == <<"+1%", "+2%", "+3%">>
CalmRate == <<"1.02", "1.04", "1.06">>

\* the two draws of one element: an index into the pitch list and one into the rate list
Draws == (1..3) \X (1..3)

Prosody(text, pitch, rate, break_ms) ==
    [text |-> text, pitch |-> pitch, rate |-> rate, break_ms |-> break_ms]

\* the element of one stripped sentence
Element(s, draw) ==
    IF EndsStrong(s) THEN Prosody(s, StrongPitch[draw[1]], StrongRate[draw[2]], 500)
    ELSE Prosody(s, CalmPitch[draw[1]], CalmRate[draw[2]], 250)

\* the loop over the sentences; draws holds one pair per element emitted
RECURSIVE Elements(_, _)
Elements(sentences, draws) ==
    IF sentences = <<>> THEN <<>>
    ELSE IF Strip(Head(sentences)) = <<>> THEN Elements(Tail(sentences), draws)
    ELSE <<Element(Strip(Head(sentences)), Head(draws))>>
         \o Elements(Tail(sentences), Tail(draws))

\* how many of the sentences the loop emits an element for
RECURSIVE Emitted(_)
Emitted(sentences) ==
    IF sentences = <<>> THEN 0
    ELSE (IF Strip(Head(sentences)) = <<>> THEN 0 ELSE 1) + Emitted(Tail(sentences))

Document(xml_lang, voice, style, sentences, body) ==
    [xml_lang |-> xml_lang, voice |-> voice, style |-> style,
     sentences |-> sentences, body |-> body]

NoSsml == Document("", "", "", <<>>, <<>>)

\* random.choice is called twice per element, in the order of the sentences
DrawsFor(text, lang) ==
    IF lang = LangBn THEN [1..Emitted(Sentences(text)) -> Draws] ELSE {<<>>}

build_ssml(text, lang, draws) ==
    IF lang = LangBn
    THEN Document("bn-BD", "bn-BD-NabanitaNeural", "chat", Sentences(text),
                  Elements(Sentences(text), draws))
    ELSE Document("en-US", "en-US-JennyNeural", "cheerful", <<>>,
                  <<Prosody(text, "+3%", "1.05", 0)>>)

\* a direct call of build_ssml on the drawn text and language code
BuildCall ==
    /\ arg.text.kind = "str" /\ arg.lang.kind = "str"
    /\ tts_out.status = 0
    /\ ssml_out = NoSsml
    /\ \E draws \in DrawsFor(arg.text.s, arg.lang.s) :
          ssml_out' = build_ssml(arg.text.s, arg.lang.s, draws)
    /\ UNCHANGED <<chatVars, arg, lang_out, tts_env, tts_out>>

\* a direct call of detect_language on the drawn text
DetectCall ==
    /\ arg.text.kind = "str"
    /\ lang_out = <<>>
    /\ lang_out' = detect_language(arg.text.s)
    /\ UNCHANGED <<chatVars, arg, ssml_out, tts_env, tts_out>>

(***************************************************************************)
(* The /tts handler and synthesize_speech.                                 *)
(***************************************************************************)
\* str.lower(): no code point outside A-Z lowers to a letter of "bn-bd" or "bn_bd"
Lower(s) == [i \in 1..Len(s) |-> IF s[i] >= 65 /\ s[i] <= 90 THEN s[i] + 32 ELSE s[i]]

\* ["bn", "bn-bd", "bn_bd"]
BanglaCodes == {<<98, 110>>, <<98, 110, 45, 98, 100>>, <<98, 110, 95, 98, 100>>}

\* lines 276-277
Normalize(lang) == IF Lower(lang) \in BanglaCodes THEN LangBn ELSE lang

\* "if not lang": None and the empty string
Falsy(v) == v.kind \in {"absent", "null"} \/ (v.kind = "str" /\ v.s = <<>>)

\* what the exchange leaves: the response (status, error, audio_url, lang) and,
\* of the call it made, whether the synthesizer ran, how it ended, the markup
\* it was given and whether an audio file was written
TtsResult(status, error, audio_url, lang, synth, doc, file) ==
    [status |-> status, error |-> error, audio_url |-> audio_url, lang |-> lang,
     synth |-> synth, doc |-> doc, file |-> file]

NoTts == TtsResult(0, "", FALSE, <<>>, "none", NoSsml, FALSE)
NoEnv == [key |-> FALSE, region |-> FALSE, result |-> "none"]

\* the response of each way the handler ends
TtsNoText == TtsResult(400, "No text provided", FALSE, <<>>, "none", NoSsml, FALSE)

TtsFailed_AsOk(lang, synth, doc, file) ==
    TtsResult(200, "", TRUE, lang, synth, doc, file)

TtsFailed(lang, synth, doc, file) ==
    TtsResult(500, "TTS failed", FALSE, lang, synth, doc, file)

TtsOk(lang, doc) == TtsResult(200, "", TRUE, lang, "completed", doc, TRUE)

\* the framework's answer to an exception the handler does not catch
TtsUnhandled == TtsResult(500, "Internal Server Error", FALSE, <<>>, "none", NoSsml, FALSE)

\* one /tts request with the body drawn; key and region say whether
\* AZURE_SPEECH_KEY and AZURE_SPEECH_REGION are set, result is how
\* speak_ssml_async ends
Tts(key, region, result) ==
    /\ ssml_out = NoSsml
    /\ tts_out.status = 0
    /\ tts_env' = [key |-> key, region |-> region, result |-> result]
    /\ LET tv == GetOrEmpty(arg.text) IN
       \/ /\ tv.kind # "str"
          /\ tts_out' = TtsUnhandled
       \/ /\ tv.kind = "str"
          /\ Strip(tv.s) = <<>>
          /\ tts_out' = TtsNoText
       \/ /\ tv.kind = "str"
          /\ Strip(tv.s) # <<>>
          /\ ~Falsy(arg.lang) /\ arg.lang.kind # "str"
          /\ tts_out' = TtsFailed(<<>>, "none", NoSsml, FALSE)
       \/ /\ tv.kind = "str"
          /\ Strip(tv.s) # <<>>
          /\ Falsy(arg.lang) \/ arg.lang.kind = "str"
          /\ LET text == Strip(tv.s)
                 lang == Normalize(IF Falsy(arg.lang) THEN detect_language(text)
                                   ELSE arg.lang.s)
             IN \/ /\ ~(key /\ region)
                   /\ tts_out' = TtsFailed(lang, "none", NoSsml, FALSE)
                \/ /\ key /\ region
                   /\ \E draws \in DrawsFor(text, lang) :
                        LET doc == build_ssml(text, lang, draws) IN
                        \/ /\ result = "completed"
                           /\ tts_out' = TtsOk(lang, doc)
                        \/ /\ result # "completed"
                           /\ \E file \in BOOLEAN :
                                tts_out' = TtsFailed(lang, result, doc, file)
    /\ UNCHANGED <<chatVars, arg, lang_out, ssml_out>>

(***************************************************************************)
(* Inputs of the chat specifications.                                      *)
(***************************************************************************)
\* absent, null, 5, "", " ", " hi ", "ক "
ChatMessages ==
    {Absent, Null, NotStr, Str(<<>>), Str(<<32>>), Str(<<32, 104, 105, 32>>),
     Str(<<2453, 32>>)}

\* the call raises, content is None, content is " ok "
ModelOutcomes == {[kind |-> "raise", s |-> <<>>], NotStr, Str(<<32, 111, 107, 32>>)}

NoArg == [text |-> Absent, lang |-> Absent]

ChatInit ==
    /\ store = EmptySession
    /\ req = [r \in Reqs |-> IdleReq]
    /\ resp = NoResp
    /\ turns = <<>>
    /\ prompt_builds = 0
    /\ any_failed = FALSE

Init ==
    /\ ChatInit
    /\ arg = NoArg
    /\ lang_out = <<>>
    /\ ssml_out = NoSsml
    /\ tts_env = NoEnv
    /\ tts_out = NoTts

\* the threaded server: requests of one session may overlap
Next ==
    \/ \E r \in Reqs, m \in ChatMessages :
          /\ ChatBadType(r, m)
          /\ UNCHANGED <<arg, callVars>>
    \/ \E r \in Reqs, m \in ChatMessages :
          /\ ChatEmpty(r, m)
          /\ UNCHANGED <<arg, callVars>>
    \/ \E r \in Reqs, m \in ChatMessages :
          /\ WithinBudget
          /\ ChatBegin(r, m)
          /\ UNCHANGED <<arg, callVars>>
    \/ \E r \in Reqs, o \in ModelOutcomes :
          /\ ModelCall(r, o)
          /\ UNCHANGED <<arg, callVars>>
    \/ \E r \in Reqs :
          /\ ChatEnd(r)
          /\ UNCHANGED <<arg, callVars>>

Spec == Init /\ [][Next]_vars

\* requests of the session handled one at a time
SeqNext ==
    \/ \E r \in Reqs, m \in ChatMessages :
          /\ InFlight = {}
          /\ ChatBadType(r, m)
          /\ UNCHANGED <<arg, callVars>>
    \/ \E r \in Reqs, m \in ChatMessages :
          /\ InFlight = {}
          /\ ChatEmpty(r, m)
          /\ UNCHANGED <<arg, callVars>>
    \/ \E r \in Reqs, m \in ChatMessages :
          /\ InFlight = {}
          /\ WithinBudget
          /\ ChatBegin(r, m)
          /\ UNCHANGED <<arg, callVars>>
    \/ \E r \in Reqs, o \in ModelOutcomes :
          /\ ModelCall(r, o)
          /\ UNCHANGED <<arg, callVars>>
    \/ \E r \in Reqs :
          /\ ChatEnd(r)
          /\ UNCHANGED <<arg, callVars>>

SeqSpec == Init /\ [][SeqNext]_vars

(***************************************************************************)
(* Single texts: a text is drawn, and detect_language or a /chat request   *)
(* of one worker is applied to it.                                         *)
(***************************************************************************)
\* " ", "h", U+097F, U+0980, U+09FF, U+0A00
LangAlphabet == {32, 104, 2431, 2432, 2559, 2560}

TextsOver(alphabet, n) == UNION {[1..k -> alphabet] : k \in 0..n}

LangInit ==
    /\ ChatInit
    /\ arg \in {[text |-> Str(t), lang |-> Absent] : t \in TextsOver(LangAlphabet, MaxLen)}
    /\ lang_out = <<>>
    /\ ssml_out = NoSsml
    /\ tts_env = NoEnv
    /\ tts_out = NoTts

LangNext ==
    \/ DetectCall
    \/ /\ ChatEmpty(1, arg.text)
       /\ UNCHANGED <<arg, callVars>>
    \/ /\ WithinBudget
       /\ ChatBegin(1, arg.text)
       /\ UNCHANGED <<arg, callVars>>
    \/ \E o \in ModelOutcomes :
          /\ ModelCall(1, o)
          /\ UNCHANGED <<arg, callVars>>
    \/ /\ ChatEnd(1)
       /\ UNCHANGED <<arg, callVars>>

LangSpec == LangInit /\ [][LangNext]_vars

(***************************************************************************)
(* Single /tts bodies: a body is drawn, and build_ssml or a /tts request   *)
(* is applied to it.                                                       *)
(***************************************************************************)
\* " ", "ক", "।", "!", "?"
SsmlAlphabet == {32, 2453, 2404, 33, 63}

\* "আমি ভালো আছি। তুমি কেমন আছ?"
TwoSentences ==
    <<2438, 2478, 2495, 32, 2477, 2494, 2482, 2507, 32, 2438, 2459, 2495, 2404,
      32, 2468, 2497, 2478, 2495, 32, 2453, 2503, 2478, 2472, 32, 2438, 2459, 63>>

TtsTexts ==
    {Absent, Null, NotStr}
    \cup {Str(t) : t \in TextsOver(SsmlAlphabet, MaxSsmlLen) \cup {TwoSentences}}

\* absent, null, 5, "", "bn", "BN-BD", "bn_bd", "en"
TtsLangs ==
    {Absent, Null, NotStr, Str(<<>>), Str(<<98, 110>>), Str(<<66, 78, 45, 66, 68>>),
     Str(<<98, 110, 95, 98, 100>>), Str(<<101, 110>>)}

SynthesisResults == {"completed", "canceled", "raised"}

TtsInit ==
    /\ ChatInit
    /\ arg \in [text : TtsTexts, lang : TtsLangs]
    /\ lang_out = <<>>
    /\ ssml_out = NoSsml
    /\ tts_env = NoEnv
    /\ tts_out = NoTts

TtsNext ==
    \/ BuildCall
    \/ \E key \in BOOLEAN, region \in BOOLEAN, result \in SynthesisResults :
          Tts(key, region, result)

TtsSpec == TtsInit /\ [][TtsNext]_vars

(***************************************************************************)
(* Properties of the chat session.                                         *)
(***************************************************************************)
\* a JSON message value that is missing, empty or only white space
IsBlank(v) ==
    \/ v.kind = "absent"
    \/ v.kind = "str" /\ \A i \in 1..Len(v.s) : v.s[i] \in WhiteSpace

\* at most six records, in pairs, a user record first in each pair
PairedWindow(h) ==
    /\ Len(h) <= 6
    /\ Len(h) % 2 = 0
    /\ \A i \in 1..Len(h) : h[i].role = (IF i % 2 = 1 THEN "user" ELSE "assistant")

\* new is old with records appended at the back and records removed only at the front
FrontTrimmed(old, new) ==
    \E k \in 0..Len(old) :
        /\ Len(new) >= Len(old) - k
        /\ \A i \in 1..(Len(old) - k) : new[i] = old[k + i]

\* the records of the last (at most three) of the turns, oldest first
RECURSIVE Records(_)
Records(ts) ==
    IF ts = <<>> THEN <<>>
    ELSE <<Message("user", Head(ts)[1]), Message("assistant", Head(ts)[2])>> \o Records(Tail(ts))

LastThree(ts) == IF Len(ts) > 3 THEN SubSeq(ts, Len(ts) - 2, Len(ts)) ELSE ts

C2_LastThreeTurns ==
    InFlight = {} =>
        /\ Len(History(store)) = (IF 2 * Len(turns) < 6 THEN 2 * Len(turns) ELSE 6)
        /\ History(store) = Records(LastThree(turns))

\* C2 witness: four turns succeeded, a failed and an empty request among them
C2_Witness ==
    /\ InFlight = {}
    /\ Len(turns) = 4
    /\ any_failed
    /\ resp.outcome = "empty"
    /\ turns[1] # turns[4]
    /\ History(store) = Records(SubSeq(turns, 2, 4))

\* C3: a request whose message is missing, empty or white space never reaches
\* the model, is answered 200 "Please ask a question." with lang "en", and
\* leaves the stored session (history and system prompt) as it was.
C3_EmptyInput ==
    /\ [](/\ \A r \in Reqs : req[r].pc # "idle" => ~IsBlank(req[r].raw)
          /\ (resp.status # 0 /\ IsBlank(resp.raw)) =>
                /\ resp.status = 200
                /\ resp.reply = PleaseAsk
                /\ resp.lang = <<101, 110>>
                /\ ~resp.called)
    /\ [][(req' = req /\ resp'.status # 0 /\ IsBlank(resp'.raw)) => store' = store]_vars

\* C3 witness: a white-space message answered while the session holds a turn
C3_Witness ==
    /\ resp.raw = Str(<<32>>)
    /\ resp.reply = PleaseAsk
    /\ Len(History(store)) = 2
    /\ HasKey(store, "system_instruction")

\* C4: a request whose model call failed is answered 200 with the apology of
\* its language, and its completion leaves the stored history unchanged.
C4_FailureKeepsHistory ==
    [][\A r \in Reqs :
        (req[r].pc = "responding" /\ req[r].outcome = "failed" /\ req'[r].pc = "idle")
        => /\ resp'.status = 200
           /\ resp'.reply = (IF resp'.lang = <<98, 110>> THEN ApologyBn ELSE ApologyEn)
           /\ History(store') = History(store)]_vars

\* C5: the system prompt of a session is computed at most once.
C5_PromptBuiltOnce == prompt_builds <= 1

\* the history that handling the turns ts one after the other leaves
RECURSIVE Serial(_, _)
Serial(h, ts) ==
    IF ts = <<>> THEN h
    ELSE Serial(KeepLast(h \o Records(<<Head(ts)>>)), Tail(ts))

\* C6: when every model call succeeded and no request is in flight, the
\* stored history is the one that handling the same requests one after the
\* other, in some order, leaves: no turn is lost.
C6_NoLostUpdate ==
    (InFlight = {} /\ ~any_failed) =>
        \E p \in Permutations(1..Len(turns)) :
            History(store) = Serial(<<>>, [i \in 1..Len(turns) |-> turns[p[i]]])

\* C10: the message list a request sends is the cached system prompt, the
\* rules of the request's language, the stored history as the request found
\* it, and the new user message last: 3 to 9 entries.
C10_MessageOrder ==
    [][\A r \in Reqs :
        (req[r].pc = "idle" /\ req'[r].pc = "calling")
        => LET ms == req'[r].messages
               h == History(store)
           IN /\ Len(ms) = Len(h) + 3
              /\ Len(ms) >= 3 /\ Len(ms) <= 9
              /\ ms[1] = Message("system",
                                 IF HasKey(store, "system_instruction")
                                 THEN store["system_instruction"] ELSE SystemInstruction)
              /\ ms[2] = Message("system", SystemRules(req'[r].lang))
              /\ \A i \in 1..Len(h) : ms[2 + i] = h[i]
              /\ ms[Len(ms)] = Message("user", req'[r].user_message)
              /\ ~IsBlank(Str(req'[r].user_message))]_vars

\* C10 witness: a request waits for the model with a list of nine entries
C10_Witness ==
    \E r \in Reqs :
        /\ req[r].pc = "calling"
        /\ Len(req[r].messages) = 9
        /\ req[r].messages[3].role = "user"
        /\ req[r].messages[9] = Message("user", req[r].user_message)

(***************************************************************************)
(* Properties of /tts, detect_language and build_ssml.                     *)
(***************************************************************************)
\* C7: a /tts request with a body of strings ends in exactly one of three
\* ways: blank or missing text gives 400 with an error, no synthesis and no
\* audio file; a missing key or region, or a synthesis that did not
\* complete, gives 500 with an error and no audio_url; anything else gives
\* 200 with audio_url and lang.  audio_url comes only with a completed
\* synthesis.
C7_TtsOutcomes ==
    (tts_out.status # 0 /\ arg.text.kind \in {"absent", "str"} /\ arg.lang.kind # "other") =>
        LET blank == IsBlank(arg.text)
            broken == ~tts_env.key \/ ~tts_env.region \/ tts_env.result # "completed"
        IN /\ blank =>
                /\ tts_out.status = 400
                /\ tts_out.error # ""
                /\ ~tts_out.audio_url
                /\ tts_out.synth = "none"
                /\ ~tts_out.file
           /\ (~blank /\ broken) =>
                /\ tts_out.status = 500
                /\ tts_out.error # ""
                /\ ~tts_out.audio_url
           /\ (~blank /\ ~broken) =>
                /\ tts_out.status = 200
                /\ tts_out.error = ""
                /\ tts_out.audio_url
                /\ tts_out.lang # <<>>
           /\ tts_out.audio_url => (tts_out.synth = "completed" /\ tts_out.file)

\* C7 witness: the synthesis was cancelled after the audio file was opened
C7_Witness ==
    /\ tts_out.status = 500
    /\ tts_env.key /\ tts_env.region
    /\ tts_out.synth = "canceled"
    /\ tts_out.file
    /\ ~tts_out.audio_url
    /\ arg.lang = Absent

\* some code point of s lies in U+0980..U+09FF
HasBangla(s) == \E i \in 1..Len(s) : s[i] >= 2432 /\ s[i] <= 2559

LangOf(s) == IF HasBangla(s) THEN <<98, 110>> ELSE <<101, 110>>

\* C8: detect_language gives "bn" for a text with a code point in
\* U+0980..U+09FF, wherever it stands, and "en" for any other text; the lang
\* of a /chat request with a non-empty message is the one of its trimmed
\* message.
C8_DetectLanguage ==
    /\ lang_out # <<>> => lang_out = LangOf(arg.text.s)
    /\ \A r \in Reqs : req[r].pc # "idle" => req[r].lang = LangOf(Strip(req[r].raw.s))
    /\ (resp.status # 0 /\ resp.raw.kind = "str" /\ ~IsBlank(resp.raw)) =>
            resp.lang = LangOf(Strip(resp.raw.s))

\* C8 witness: the only Bangla code point is the last one before a space
C8_Witness ==
    /\ arg.text.s = <<104, 2559, 32>>
    /\ lang_out = <<98, 110>>
    /\ resp.status = 200
    /\ resp.lang = <<98, 110>>
    /\ resp.outcome = "ok"

RECURSIVE Concat(_)
Concat(ss) == IF ss = <<>> THEN <<>> ELSE Head(ss) \o Concat(Tail(ss))

\* pieces cut text after each "।", "!" and "?" and nowhere else
CutAfterEnders(text, pieces) ==
    /\ pieces # <<>>
    /\ Concat(pieces) = text
    /\ \A i \in 1..Len(pieces) : \A j \in 1..Len(pieces[i]) :
          (pieces[i][j] \in {2404, 33, 63}) <=> (i < Len(pieces) /\ j = Len(pieces[i]))
    /\ \A i \in 1..(Len(pieces) - 1) : pieces[i] # <<>>

NotBlank(piece) == \E j \in 1..Len(piece) : piece[j] \notin WhiteSpace

\* the markup of a Bangla text: one element per piece that is not blank, in
\* the order of the text, holding the stripped piece, with a 500 ms pause
\* after a piece that ends in "!" or "?" and a 250 ms pause after any other
BanglaMarkup(text, doc) ==
    LET kept == SelectSeq(doc.sentences, NotBlank) IN
    /\ CutAfterEnders(text, doc.sentences)
    /\ Len(doc.body) = Len(kept)
    /\ \A i \in 1..Len(kept) :
          LET e == doc.body[i]
              strong == kept[i][Len(kept[i])] \in {33, 63}
          IN /\ e.text = Strip(kept[i])
             /\ e.break_ms = (IF strong THEN 500 ELSE 250)
             /\ e.pitch \in (IF strong THEN {"+2%", "+3%", "+4%"} ELSE {"+1%", "+2%", "+3%"})
             /\ e.rate \in (IF strong THEN {"1.03", "1.05", "1.07"}
                            ELSE {"1.02", "1.04", "1.06"})

\* C9: for lang "bn", build_ssml, called directly or by /tts, cuts the text
\* after each sentence ender and emits, in order, one prosody element per
\* piece that is not blank, with the stripped piece, the longer pause after
\* "!" or "?" and the shorter one otherwise, pitch and rate from the lists.
C9_BanglaSsml ==
    /\ (ssml_out # NoSsml /\ arg.lang.s = <<98, 110>>) => BanglaMarkup(arg.text.s, ssml_out)
    /\ (tts_out.doc # NoSsml /\ tts_out.lang = <<98, 110>>) =>
            BanglaMarkup(Strip(arg.text.s), tts_out.doc)

\* C9 witness: the two sentences of the example, the longer pause after the second
C9_Witness ==
    /\ arg.text.s = TwoSentences
    /\ Len(ssml_out.body) = 2
    /\ ssml_out.body[1].text = SubSeq(TwoSentences, 1, 13)
    /\ ssml_out.body[1].break_ms = 250
    /\ ssml_out.body[2].text = SubSeq(TwoSentences, 15, 27)
    /\ ssml_out.body[2].break_ms = 500

====
